---- MODULE Spec2Model ----
(***************************************************************************)
(* TaxSaver: the recommendation executor and the transaction ledger        *)
(* (transaction.service.ts), the recommendation lifecycle (tax.service.ts),*)
(* the carry-forward ledger (carryforward.service.ts) and the wash-sale    *)
(* guard (WashSaleService), over the tables of schema.sql.                 *)
(*                                                                         *)
(* The database is PostgreSQL at its default isolation level (READ         *)
(* COMMITTED): a statement sees the rows committed before it starts plus   *)
(* the writes of its own transaction; UPDATE and DELETE take a row lock    *)
(* held until COMMIT/ROLLBACK; an INSERT of a row carrying a foreign key   *)
(* takes a key-share lock on the referenced row, which a DELETE of that    *)
(* row must wait for; a lock cycle is broken by aborting one transaction.  *)
(***************************************************************************)
EXTENDS Integers, Sequences, FiniteSets, TLC

VARIABLES
    holdings,       \* table holdings: holding_id -> row
    transactions,   \* table transactions: rows in insertion (commit) order
    recs,           \* table tax_recommendations: rows in insertion order
    proc,           \* the in-flight executeRecommendation calls, one per connection
    executedOk,     \* history: ids of the recommendations an execution committed for
    reports,        \* table tax_reports: the carry_forward rows
    cfResult,       \* the last call of the carry-forward service and its result
    wsTxns,         \* the rows of transactions the wash-sale guard reads
    wsResult,       \* the last call of checkWashSale and its result
    taxConfig,      \* table tax_config: the row getTaxConfig returns
    taxResult       \* the last call of the tax calculators and its result

vars == <<holdings, transactions, recs, proc, executedOk,
          reports, cfResult, wsTxns, wsResult, taxConfig, taxResult>>

dbVars == <<holdings, transactions, recs, proc, executedOk>>
cfVars == <<reports, cfResult>>
wsVars == <<wsTxns, wsResult>>
taxVars == <<taxConfig, taxResult>>

(***************************************************************************)
(* Bounds of the model.                                                    *)
(***************************************************************************)
MaxQty == 2            \* quantities entered by users: 1..MaxQty
MaxManual == 1         \* manually created transactions (POST /api/transactions)
MaxRecs == 2           \* rows the tax_recommendations table may hold
MaxReversals == 1      \* reverseTransaction calls that succeed
MaxLoss == 1           \* losses of a carry_forward row: 0..MaxLoss each
MaxGain == 2           \* current gains passed to applyCarryForward: 0..MaxGain
MaxSellDay == 1        \* transaction_date of the guard's rows: day 0..MaxSellDay
MaxWsTxns == 2         \* rows of transactions the wash-sale guard reads
MaxHistTxns == 3       \* rows of transactions the wash-sale history reads

NULL == "NULL"
Users == {"A", "B"}
\* The user whose calls create rows; the other user owns a holding and calls
\* with the ids of rows that are not theirs.
Owners == {"A"}
HoldingIds == {"h1", "h2"}
Procs == {1, 2}

Max(a, b) == IF a >= b THEN a ELSE b
Min(a, b) == IF a <= b THEN a ELSE b

\* A row of holdings that does not exist.
NoHolding == [exists |-> FALSE, user |-> NULL, asset_type |-> NULL, quantity |-> 0,
              avg |-> 0, cur |-> 0, days |-> 0]

\* holdings rows: (holding_id, user_id, asset_type, quantity, average_buy_price,
\* current_price, purchase_date); days is the age of purchase_date in days.
HoldingRow(u, atype, q, a, c, days) ==
    [exists |-> TRUE, user |-> u, asset_type |-> atype, quantity |-> q,
     avg |-> a, cur |-> c, days |-> days]

\* An idle connection.
IdleProc == [pc |-> "idle", user |-> NULL, rec |-> 0, holding_id |-> NULL,
             quantity |-> 0, price |-> 0, hq |-> 0, inserted |-> FALSE,
             hop |-> "none", newQuantity |-> 0, marked |-> FALSE, error |-> "none"]

\* The statements of a call run between BEGIN and COMMIT/ROLLBACK; "threw" and
\* "returned" are the call after its transaction ended, before the connection is
\* released and the result reaches the caller.
InTxnPcs == {"selectHolding", "insert", "holding", "mark", "commit"}

(***************************************************************************)
(* Rows.                                                                   *)
(***************************************************************************)
\* transactions rows.  reversed counts the ' [REVERSED]' annotations appended to
\* notes.  rec, soldFrom, readQty and seenQty are history fields the code does
\* not store: the recommendation whose execution inserted the row, the holding
\* that execution sold from, the holding quantity it read, and the committed
\* holding quantity its COMMIT replaced.
TxnRow(u, h, atype, type, q, price, platform, r, soldFrom, readQty, seenQty) ==
    [user |-> u, holding_id |-> h, asset_type |-> atype, type |-> type,
     quantity |-> q, price |-> price,
     platform |-> platform, reversed |-> 0,
     rec |-> r, soldFrom |-> soldFrom, readQty |-> readQty, seenQty |-> seenQty]

\* tax_recommendations rows.
RecRow(u, h, q, price, loss, savings100, score, deadline) ==
    [user |-> u, holding_id |-> h, recommendation_type |-> "harvest_loss",
     quantity |-> q, price |-> price,
     potential_loss |-> loss, tax_savings100 |-> savings100,
     priority_score |-> score, deadline |-> deadline,
     status |-> "pending", executed_at |-> FALSE]

\* The transactions table holds the manual rows and one execution's sell per
\* connection.
MaxTxns == MaxManual + Cardinality(Procs)

Active == {p \in Procs : proc[p].pc \in InTxnPcs}
ManualCount == Cardinality({t \in 1..Len(transactions) : transactions[t].platform = "manual"})

RECURSIVE SumReversed(_)
SumReversed(rows) ==
    IF rows = <<>> THEN 0 ELSE Head(rows).reversed + SumReversed(Tail(rows))
ReversalCount == SumReversed(transactions)

(***************************************************************************)
(* Row locks held by the open transactions (released by COMMIT/ROLLBACK).  *)
(***************************************************************************)
\* FOR KEY SHARE on holdings row h: taken by the foreign-key check of p's INSERT
\* INTO transactions (schema.sql: holding_id REFERENCES holdings).
HoldsKeyShare(p, h) == proc[p].pc \in InTxnPcs /\ proc[p].inserted /\ proc[p].holding_id = h
\* FOR NO KEY UPDATE (UPDATE of quantity) or FOR UPDATE (DELETE) on holdings row h.
HoldsRowLock(p, h) == proc[p].pc \in InTxnPcs /\ proc[p].hop # "none" /\ proc[p].holding_id = h
HoldsDeleteLock(p, h) == proc[p].pc \in InTxnPcs /\ proc[p].hop = "delete" /\ proc[p].holding_id = h
\* Row lock on tax_recommendations row r: p's own UPDATE of the status, or the
\* ON DELETE SET NULL update that p's DELETE of the holding cascades to r.
HoldsRecLock(p, r) ==
    /\ proc[p].pc \in InTxnPcs
    /\ \/ proc[p].marked /\ proc[p].rec = r
       \/ /\ proc[p].hop = "delete"
          /\ r \in 1..Len(recs)
          /\ recs[r].holding_id = proc[p].holding_id

HoldingDeleteLocked(h) == \E p \in Procs : HoldsDeleteLock(p, h)
HoldingRowLocked(h) == \E p \in Procs : HoldsRowLock(p, h)
RecLocked(r) == \E p \in Procs : HoldsRecLock(p, r)

(***************************************************************************)
(* The committed database, and the effect of COMMIT and ROLLBACK on it.    *)
(***************************************************************************)
Db == [holdings |-> holdings, transactions |-> transactions, recs |-> recs]

SetDb(d) ==
    /\ holdings' = d.holdings
    /\ transactions' = d.transactions
    /\ recs' = d.recs

\* A foreign key that leaves the referencing rows as they are.
KeepLinks(rows, h) == rows

\* ON DELETE SET NULL of transactions.holding_id and tax_recommendations.holding_id.
SetNull(rows, h) ==
    [i \in 1..Len(rows) |->
        IF rows[i].holding_id = h THEN [rows[i] EXCEPT !.holding_id = NULL] ELSE rows[i]]

\* The recommendation SELECT without its status filter:
\*  WHERE recommendation_id = r AND user_id = u
SelectOwnedRec(u, r) ==
    /\ r \in 1..Len(recs)
    /\ recs[r].user = u

\* SELECT * FROM tax_recommendations
\*  WHERE recommendation_id = r AND user_id = u AND status = 'pending'
SelectPendingRec(u, r) ==
    /\ r \in 1..Len(recs)
    /\ recs[r].user = u
    /\ recs[r].status = "pending"

\* SELECT * FROM holdings WHERE holding_id = h AND user_id = u
SelectHolding(u, h) ==
    /\ h # NULL
    /\ holdings[h].exists
    /\ holdings[h].user = u

\* The decrement computed by the database from the committed row, as
\* SET quantity = quantity - n would.
NewQuantityInPlace(p) == holdings[proc[p].holding_id].quantity - proc[p].quantity

\* const newQuantity = holding.quantity - recommendation.quantity, from the rows
\* the call read.
NewQuantity(p) == proc[p].hq - proc[p].quantity

\* The writes of p's open transaction, made visible by COMMIT: the sell row, the
\* holding's UPDATE or DELETE (with its ON DELETE SET NULL), the status UPDATE.
CommitEffect(p) ==
    LET h == proc[p].holding_id
        r == proc[p].rec
        deleted == proc[p].hop = "delete"
        row == TxnRow(proc[p].user, IF deleted THEN NULL ELSE h,
                      holdings[h].asset_type, "sell",
                      proc[p].quantity, proc[p].price, "tlh_execution",
                      r, h, proc[p].hq, holdings[h].quantity)
        txns1 == IF deleted THEN SetNull(transactions, h) ELSE transactions
        recs1 == IF deleted THEN SetNull(recs, h) ELSE recs
    IN  [holdings |->
            IF deleted THEN [holdings EXCEPT ![h] = NoHolding]
            ELSE IF proc[p].hop = "update" /\ holdings[h].exists
                 THEN [holdings EXCEPT ![h].quantity = proc[p].newQuantity]
                 ELSE holdings,
         transactions |-> IF proc[p].inserted THEN Append(txns1, row) ELSE txns1,
         recs |-> IF proc[p].marked
                  THEN [recs1 EXCEPT ![r].status = "accepted", ![r].executed_at = TRUE]
                  ELSE recs1]

\* The statements run in autocommit, without BEGIN/ROLLBACK: the writes made
\* before the failure stay.
NoRollback(p) == CommitEffect(p)

\* catch (error) { await client.query('ROLLBACK'); throw error; }
RollbackEffect(p) == Db

(***************************************************************************)
(* executeRecommendation(userId, recommendationId), one statement per step *)
(***************************************************************************)
\* The call after catch { ROLLBACK; throw error }: what the caller is told.
Threw(p, e) ==
    [IdleProc EXCEPT !.pc = "threw", !.user = proc[p].user, !.rec = proc[p].rec,
                     !.error = e]

\* BEGIN; SELECT the pending recommendation; 'not found or already executed'.
\* Calls take the lowest free connection.
ExecBegin(p, u, r) ==
    /\ proc[p].pc = "idle"
    /\ \A q \in Procs : q < p => proc[q].pc # "idle"
    /\ IF SelectPendingRec(u, r)
       THEN /\ Len(transactions) - ManualCount + Cardinality(Active) < Cardinality(Procs)
            /\ proc' = [proc EXCEPT ![p] =
                    [IdleProc EXCEPT !.pc = "selectHolding", !.user = u, !.rec = r,
                                     !.holding_id = recs[r].holding_id,
                                     !.quantity = recs[r].quantity,
                                     !.price = recs[r].price]]
            /\ UNCHANGED <<holdings, transactions, recs>>
       ELSE /\ SetDb(RollbackEffect(p))
            /\ proc' = [proc EXCEPT ![p] =
                    [IdleProc EXCEPT !.pc = "threw", !.user = u, !.rec = r,
                                     !.error = "notfound"]]
    /\ UNCHANGED <<executedOk, cfVars, wsVars, taxVars>>

\* SELECT the referenced holding; 'Holding not found'.
ExecSelectHolding(p) ==
    /\ proc[p].pc = "selectHolding"
    /\ IF SelectHolding(proc[p].user, proc[p].holding_id)
       THEN /\ proc' = [proc EXCEPT ![p].pc = "insert",
                                     ![p].hq = holdings[proc[p].holding_id].quantity]
            /\ UNCHANGED <<holdings, transactions, recs>>
       ELSE /\ SetDb(RollbackEffect(p))
            /\ proc' = [proc EXCEPT ![p] = Threw(p, "holdingnotfound")]
    /\ UNCHANGED <<executedOk, cfVars, wsVars, taxVars>>

\* INSERT INTO transactions (... 'sell', recommendation.quantity,
\* recommendation.current_price ...).  The foreign key on holding_id waits for an
\* uncommitted DELETE of the holding and fails when the holding is gone.
ExecInsertTxn(p) ==
    LET h == proc[p].holding_id IN
    /\ proc[p].pc = "insert"
    /\ ~ \E q \in Procs \ {p} : HoldsDeleteLock(q, h)
    /\ IF holdings[h].exists
       THEN /\ proc' = [proc EXCEPT ![p].pc = "holding", ![p].inserted = TRUE]
            /\ UNCHANGED <<holdings, transactions, recs>>
       ELSE /\ SetDb(RollbackEffect(p))
            /\ proc' = [proc EXCEPT ![p] = Threw(p, "foreignkey")]
    /\ UNCHANGED <<executedOk, cfVars, wsVars, taxVars>>

\* if (newQuantity <= 0) DELETE FROM holdings ... else UPDATE holdings SET quantity.
\* The DELETE waits for every other lock on the row, key-share locks included;
\* the UPDATE waits only for another UPDATE or DELETE.
ExecUpdateHolding(p) ==
    LET h == proc[p].holding_id
        n == NewQuantity(p)
    IN
    /\ proc[p].pc = "holding"
    /\ IF n <= 0
       THEN /\ ~ \E q \in Procs \ {p} : HoldsKeyShare(q, h) \/ HoldsRowLock(q, h)
            /\ proc' = [proc EXCEPT ![p].pc = "mark", ![p].hop = "delete",
                                     ![p].newQuantity = n]
       ELSE /\ ~ \E q \in Procs \ {p} : HoldsRowLock(q, h)
            /\ proc' = [proc EXCEPT ![p].pc = "mark", ![p].hop = "update",
                                     ![p].newQuantity = n]
    /\ UNCHANGED <<holdings, transactions, recs, executedOk, cfVars, wsVars, taxVars>>

\* UPDATE tax_recommendations SET status = 'accepted', executed_at = NOW()
\*  WHERE recommendation_id = r
ExecMarkAccepted(p) ==
    /\ proc[p].pc = "mark"
    /\ ~ \E q \in Procs \ {p} : HoldsRecLock(q, proc[p].rec)
    /\ proc' = [proc EXCEPT ![p].pc = "commit", ![p].marked = TRUE]
    /\ UNCHANGED <<holdings, transactions, recs, executedOk, cfVars, wsVars, taxVars>>

\* COMMIT, and the result object is built.
ExecCommit(p) ==
    /\ proc[p].pc = "commit"
    /\ SetDb(CommitEffect(p))
    /\ executedOk' = executedOk \cup {proc[p].rec}
    /\ proc' = [proc EXCEPT ![p] =
            [IdleProc EXCEPT !.pc = "returned", !.user = proc[p].user,
                             !.rec = proc[p].rec]]
    /\ UNCHANGED <<cfVars, wsVars, taxVars>>

\* The next statement of the open transaction (the INSERT, the holding's
\* UPDATE/DELETE, the status UPDATE) raises (a deadlock abort, a constraint, a
\* lost connection): the catch block rolls back and rethrows.  The error names
\* the statement that failed.
ExecStatementFails(p) ==
    /\ proc[p].pc \in {"insert", "holding", "mark"}
    /\ SetDb(RollbackEffect(p))
    /\ proc' = [proc EXCEPT ![p] = Threw(p, proc[p].pc)]
    /\ UNCHANGED <<executedOk, cfVars, wsVars, taxVars>>

\* finally { client.release() }: the result or the error reaches the caller.
ExecRelease(p) ==
    /\ proc[p].pc \in {"threw", "returned"}
    /\ proc' = [proc EXCEPT ![p] = IdleProc]
    /\ UNCHANGED <<holdings, transactions, recs, executedOk, cfVars, wsVars, taxVars>>

(***************************************************************************)
(* The single-statement calls and reverseTransaction.                      *)
(***************************************************************************)
\* POST /api/transactions -> createTransaction: one INSERT INTO transactions with
\* the caller's user_id and the holdingId of the request body, unchecked but for
\* the foreign key.
CreateTransaction(u, h, type, q) ==
    /\ ManualCount < MaxManual
    /\ h # NULL => ~ HoldingDeleteLocked(h)
    /\ IF h = NULL \/ holdings[h].exists
       THEN transactions' = Append(transactions,
                    TxnRow(u, h, "stock", type, q, 2, "manual", 0, NULL, 0, 0))
       ELSE UNCHANGED transactions
    /\ UNCHANGED <<holdings, recs, proc, executedOk, cfVars, wsVars, taxVars>>

(***************************************************************************)
(* The tax calculator (TaxService).  Amounts are whole numbers; a value    *)
(* the code obtains by multiplying with a rate in percent is kept times    *)
(* 100 (suffix 100), so that no fraction is dropped.                       *)
(***************************************************************************)
Abs(x) == IF x < 0 THEN - x ELSE x

\* enrichHolding: currentPrice = row.current_price ? ... : averageBuyPrice
CurrentPrice(row) == IF row.cur = 0 THEN row.avg ELSE row.cur

\* enrichHolding: invested = quantity * averageBuyPrice
Invested(row) == row.quantity * row.avg

\* enrichHolding: profitLoss = quantity * currentPrice - quantity * averageBuyPrice
ProfitLoss(row) == row.quantity * CurrentPrice(row) - row.quantity * row.avg

\* enrichHolding: short-term is < 365 days for stocks, < 1095 days otherwise.
IsShortTerm(row) ==
    IF row.asset_type = "stock" THEN row.days < 365 ELSE row.days < 1095

\* getTaxConfig: the configuration returned when tax_config holds no row for the
\* year (and the row schema.sql inserts for 2025-26).
DefaultTaxConfig ==
    [shortTermEquityRate |-> 15, longTermEquityRate |-> 10,
     longTermEquityExemption |-> 100000,
     cryptoShortTermRate |-> 30, cryptoLongTermRate |-> 20,
     surchargeThreshold |-> 5000000, surchargeRate |-> 10, cessRate |-> 4]

\* calculateHoldingTax with the gain taxed whatever its sign.
CalculateHoldingTaxUnguarded(h, config) ==
    LET row == holdings[h]
        gainLoss == ProfitLoss(row)
        isShortTerm == IsShortTerm(row)
        taxRate == IF row.asset_type = "stock"
                   THEN IF isShortTerm THEN config.shortTermEquityRate
                                       ELSE config.longTermEquityRate
                   ELSE IF isShortTerm THEN config.cryptoShortTermRate
                                       ELSE config.cryptoLongTermRate
    IN  [holding_id |-> h, gainLoss |-> gainLoss, isShortTerm |-> isShortTerm,
         taxRate |-> taxRate, taxableAmount |-> gainLoss,
         taxLiability100 |-> Abs(gainLoss) * taxRate,
         assetType |-> row.asset_type]

\* calculateHoldingTax with the long-term equity exemption granted once per user,
\* to the first listed of the user's long-term stock holdings in profit.
CalculateHoldingTaxExemptOnce(h, config) ==
    LET row == holdings[h]
        gainLoss == ProfitLoss(row)
        isShortTerm == IsShortTerm(row)
        taxed == gainLoss > 0
        LongTermStockGain(x) ==
            /\ holdings[x].exists /\ holdings[x].user = row.user
            /\ holdings[x].asset_type = "stock" /\ ~ IsShortTerm(holdings[x])
            /\ ProfitLoss(holdings[x]) > 0
        first == \A x \in HoldingIds \ {h} : LongTermStockGain(x) => h = "h2"
        taxRate ==
            IF ~ taxed THEN 0
            ELSE IF row.asset_type = "stock"
                 THEN IF isShortTerm THEN config.shortTermEquityRate
                                     ELSE config.longTermEquityRate
                 ELSE IF isShortTerm THEN config.cryptoShortTermRate
                                     ELSE config.cryptoLongTermRate
        taxableAmount ==
            IF taxed /\ row.asset_type = "stock" /\ ~ isShortTerm /\ first
            THEN Max(0, gainLoss - config.longTermEquityExemption)
            ELSE gainLoss
    IN  [holding_id |-> h, gainLoss |-> gainLoss, isShortTerm |-> isShortTerm,
         taxRate |-> taxRate, taxableAmount |-> taxableAmount,
         taxLiability100 |-> IF taxed THEN taxableAmount * taxRate ELSE 0,
         assetType |-> row.asset_type]

\* calculateHoldingTax(holding, config)
CalculateHoldingTax(h, config) ==
    LET row == holdings[h]
        gainLoss == ProfitLoss(row)
        isShortTerm == IsShortTerm(row)
        taxed == gainLoss > 0
        taxRate ==
            IF ~ taxed THEN 0
            ELSE IF row.asset_type = "stock"
                 THEN IF isShortTerm THEN config.shortTermEquityRate
                                     ELSE config.longTermEquityRate
                 ELSE IF row.asset_type = "crypto"
                      THEN IF isShortTerm THEN config.cryptoShortTermRate
                                          ELSE config.cryptoLongTermRate
                      ELSE 0
        taxableAmount ==
            IF taxed /\ row.asset_type = "stock" /\ ~ isShortTerm
            THEN Max(0, gainLoss - config.longTermEquityExemption)
            ELSE gainLoss
    IN  [holding_id |-> h, gainLoss |-> gainLoss, isShortTerm |-> isShortTerm,
         taxRate |-> taxRate, taxableAmount |-> taxableAmount,
         taxLiability100 |-> IF taxed THEN taxableAmount * taxRate ELSE 0,
         assetType |-> row.asset_type]

RECURSIVE SumSeq(_)
SumSeq(xs) == IF xs = <<>> THEN 0 ELSE Head(xs) + SumSeq(Tail(xs))

\* getUserHoldings(u): ORDER BY created_at DESC.
HoldingOrder == <<"h2", "h1">>
UserHoldings(u) ==
    SelectSeq(HoldingOrder, LAMBDA h : holdings[h].exists /\ holdings[h].user = u)

\* The net gains with the losses of both buckets set off against the gains of
\* both.
NetGainsPooled(gains, losses, otherGains, otherLosses) ==
    Max(0, Min(gains, gains + otherGains - losses - otherLosses))

\* Math.max(0, total gains - total losses) of one bucket; the other bucket's
\* totals are not used.
NetGains(gains, losses, otherGains, otherLosses) == Max(0, gains - losses)

\* calculateTax over the holdings hs, in that order.
TaxSummary(u, hs, config) ==
    LET calcs == [i \in 1..Len(hs) |-> CalculateHoldingTax(hs[i], config)]
        Part(st, gain) ==
            SumSeq([i \in 1..Len(calcs) |->
                IF calcs[i].isShortTerm = st /\ (calcs[i].gainLoss > 0) = gain
                THEN Abs(calcs[i].gainLoss) ELSE 0])
        stGains == Part(TRUE, TRUE)
        ltGains == Part(FALSE, TRUE)
        stLosses == Part(TRUE, FALSE)
        ltLosses == Part(FALSE, FALSE)
        liability100 == SumSeq([i \in 1..Len(calcs) |-> calcs[i].taxLiability100])
        surchargePct == IF stGains + ltGains > config.surchargeThreshold
                        THEN config.surchargeRate ELSE 0
    IN  [userId |-> u,
         totalShortTermGains |-> stGains, totalLongTermGains |-> ltGains,
         totalShortTermLosses |-> stLosses, totalLongTermLosses |-> ltLosses,
         netShortTermGains |-> NetGains(stGains, stLosses, ltGains, ltLosses),
         netLongTermGains |-> NetGains(ltGains, ltLosses, stGains, stLosses),
         totalTaxLiability100 |-> liability100,
         \* times 100 * 100 * 100
         totalTaxWithSurchargeAndCess1e6 |->
            liability100 * (100 + surchargePct) * (100 + config.cessRate),
         calculations |-> calcs]

\* The summary calculateTax(u, FY) returns.
UserTaxSummary(u, config) == TaxSummary(u, UserHoldings(u), config)

\* The holdings of u that are not in profit, newest first.
NonGainHoldings(u) ==
    SelectSeq(HoldingOrder,
              LAMBDA h : holdings[h].exists /\ holdings[h].user = u
                         /\ ProfitLoss(holdings[h]) <= 0)

\* The loss-making holdings of u, newest first.
LossHoldings(u) ==
    SelectSeq(HoldingOrder,
              LAMBDA h : holdings[h].exists /\ holdings[h].user = u
                         /\ ProfitLoss(holdings[h]) < 0)

\* Math.floor(lossPercentage / 5), lossPercentage = |profitLoss / invested * 100|
\* (0 when nothing is invested).
LossBand(row) ==
    IF Invested(row) > 0
    THEN (Abs(ProfitLoss(row)) * 100) \div (Invested(row) * 5)
    ELSE 0

\* The score without its cap.
PriorityScoreUncapped(row, taxSavings100) ==
    LossBand(row) + (IF taxSavings100 > 0 THEN 3 ELSE 0)

\* Math.min(10, Math.floor(lossPercentage / 5) + (taxSavings > 0 ? 3 : 0))
PriorityScore(row, taxSavings100) ==
    Min(10, LossBand(row) + (IF taxSavings100 > 0 THEN 3 ELSE 0))

\* The financial year the recommendations are generated for, "2024-25".
FinancialYear == [start |-> 2024, end |-> 2025]

\* new Date(`${parseInt(financialYear.split('-')[0]) + 1}-03-31`)
Deadline(financialYear) == [year |-> financialYear.start + 1, month |-> 3, day |-> 31]

\* The recommendation generateRecommendations builds for loss holding h.
Recommendation(u, h, summary) ==
    LET row == holdings[h]
        calc == CHOOSE c \in {summary.calculations[i] :
                                i \in 1..Len(summary.calculations)} : c.holding_id = h
        potentialLoss == Abs(calc.gainLoss)
        taxSavings100 ==
            IF calc.isShortTerm /\ summary.netShortTermGains > 0
            THEN Min(potentialLoss, summary.netShortTermGains) * calc.taxRate
            ELSE IF ~ calc.isShortTerm /\ summary.netLongTermGains > 0
                 THEN Min(potentialLoss, summary.netLongTermGains) * calc.taxRate
                 ELSE 0
    IN  RecRow(u, h, row.quantity, CurrentPrice(row), potentialLoss, taxSavings100,
               PriorityScore(row, taxSavings100), Deadline(FinancialYear))

\* ORDER BY priority_score DESC, created_at DESC over rows given in creation
\* order: highest score first, the later-created of two equal scores first.
RECURSIVE OrderByPriorityCreatedDesc(_)
OrderByPriorityCreatedDesc(rows) ==
    IF rows = <<>> THEN <<>>
    ELSE LET rest == OrderByPriorityCreatedDesc(Tail(rows))
             x == Head(rows)
             k == Cardinality({i \in 1..Len(rest) :
                                  rest[i].priority_score >= x.priority_score})
         IN  SubSeq(rest, 1, k) \o <<x>> \o SubSeq(rest, k + 1, Len(rest))

\* recommendations.sort((a, b) => b.priorityScore - a.priorityScore): highest
\* score first, equal scores in their order in rows (the sort is stable).
RECURSIVE SortByPriority(_)
SortByPriority(rows) ==
    IF rows = <<>> THEN <<>>
    ELSE LET rest == SortByPriority(Tail(rows))
             x == Head(rows)
             k == Cardinality({i \in 1..Len(rest) :
                                  rest[i].priority_score > x.priority_score})
         IN  SubSeq(rest, 1, k) \o <<x>> \o SubSeq(rest, k + 1, Len(rest))

\* The list generateRecommendations(u, FY) returns.
Recommendations(u, config) ==
    LET summary == UserTaxSummary(u, config)
        hs == LossHoldings(u)
    IN  SortByPriority([i \in 1..Len(hs) |-> Recommendation(u, hs[i], summary)])

\* for (const rec of recommendations) await this.saveRecommendation(rec)
SaveRecommendations(rows, recommendations) == rows \o recommendations

\* generateRecommendations(u, FY): one pending harvest_loss row per loss-making
\* holding of u, with the holding's quantity and current price, saved in the
\* order of the returned list.
GenerateRecommendations(u) ==
    LET hs == LossHoldings(u) IN
    /\ Len(recs) + Len(hs) <= MaxRecs
    /\ \A i \in 1..Len(hs) : ~ HoldingDeleteLocked(hs[i])
    /\ recs' = SaveRecommendations(recs, Recommendations(u, taxConfig))
    /\ UNCHANGED <<holdings, transactions, proc, executedOk, cfVars, wsVars, taxVars>>

\* UPDATE tax_recommendations SET status = s
\*  WHERE recommendation_id = r AND user_id = u;  rowCount = 0 -> 404.
StatusUpdateMatches(u, r) ==
    /\ r \in 1..Len(recs)
    /\ recs[r].user = u

UpdateRecommendationStatus(u, r, s) ==
    /\ ~ RecLocked(r)
    /\ IF StatusUpdateMatches(u, r)
       THEN recs' = [recs EXCEPT ![r].status = s]
       ELSE UNCHANGED recs
    /\ UNCHANGED <<holdings, transactions, proc, executedOk, cfVars, wsVars, taxVars>>

\* SELECT * FROM transactions WHERE transaction_id = t AND user_id = u
SelectTransaction(u, t) ==
    /\ t \in 1..Len(transactions)
    /\ transactions[t].user = u

\* The holdings table after reverseTransaction's statements on the holding the
\* transaction row links to: a sell adds its quantity back (or re-inserts the
\* row under the caller), a buy subtracts its quantity.
ReversedHoldings(u, txn) ==
    LET h == txn.holding_id IN
    IF h = NULL THEN holdings
    ELSE IF txn.type = "sell"
         THEN IF holdings[h].exists
              THEN [holdings EXCEPT ![h].quantity = @ + txn.quantity]
              ELSE [holdings EXCEPT ![h] = HoldingRow(u, txn.asset_type, txn.quantity,
                                                       txn.price, txn.price, 0)]
         ELSE IF holdings[h].exists
              THEN [holdings EXCEPT ![h].quantity = @ - txn.quantity]
              ELSE holdings

\* reverseTransaction(u, t): BEGIN ... COMMIT, taken as one step, while fewer
\* than limit reversals have been made in all.
ReverseTransactionWithin(u, t, limit) ==
    /\ IF SelectTransaction(u, t)
       THEN /\ ReversalCount < limit
            /\ transactions[t].holding_id # NULL
                    => ~ HoldingRowLocked(transactions[t].holding_id)
            /\ holdings' = ReversedHoldings(u, transactions[t])
            /\ transactions' = [transactions EXCEPT ![t].reversed = @ + 1]
       ELSE UNCHANGED <<holdings, transactions>>
    /\ UNCHANGED <<recs, proc, executedOk, cfVars, wsVars, taxVars>>

\* reverseTransaction(u, t)
ReverseTransaction(u, t) == ReverseTransactionWithin(u, t, MaxReversals)

\* PUT /api/portfolio/holdings/:id -> updateHolding(h, u, {quantity: q}):
\* UPDATE holdings SET quantity = q WHERE holding_id = h AND user_id = u
UpdateHolding(u, h, q) ==
    /\ ~ HoldingRowLocked(h)
    /\ IF holdings[h].exists /\ holdings[h].user = u
       THEN holdings' = [holdings EXCEPT ![h].quantity = q]
       ELSE UNCHANGED holdings
    /\ UNCHANGED <<transactions, recs, proc, executedOk, cfVars, wsVars, taxVars>>

(***************************************************************************)
(* The specification of the ledger and the executor.                       *)
(***************************************************************************)
InitDb ==
    /\ holdings = [h \in HoldingIds |->
                        IF h = "h1" THEN HoldingRow("A", "stock", 1, 3, 2, 0)
                                    ELSE HoldingRow("B", "stock", 1, 3, 2, 0)]
    /\ transactions = <<>>
    /\ recs = <<>>
    /\ proc = [p \in Procs |-> IdleProc]
    /\ executedOk = {}

\* No carry-forward row, no call made.
CfEmpty ==
    /\ reports = {}
    /\ cfResult = [op |-> "none"]

\* No transaction for the wash-sale guard to read, no call made.
WsEmpty ==
    /\ wsTxns = {}
    /\ wsResult = [op |-> "none"]

\* No tax_config row but the default one, no call made.
TaxIdle ==
    /\ taxConfig = DefaultTaxConfig
    /\ taxResult = [op |-> "none"]

Init == InitDb /\ CfEmpty /\ WsEmpty /\ TaxIdle

\* One statement of an executeRecommendation call on connection p.
ExecStep(p) ==
    \/ \E u \in Users, r \in 1..MaxRecs : ExecBegin(p, u, r)
    \/ ExecSelectHolding(p)
    \/ ExecInsertTxn(p)
    \/ ExecUpdateHolding(p)
    \/ ExecMarkAccepted(p)
    \/ ExecCommit(p)
    \/ ExecStatementFails(p)
    \/ ExecRelease(p)

\* The ledger: every call of the transaction and recommendation routes, with one
\* executeRecommendation in flight at a time.
Next ==
    \/ ExecStep(1)
    \/ \E u \in Owners, h \in HoldingIds \cup {NULL}, type \in {"buy", "sell"},
          q \in 1..MaxQty : CreateTransaction(u, h, type, q)
    \/ \E u \in Owners : GenerateRecommendations(u)
    \/ \E u \in Users, r \in 1..MaxRecs, s \in {"accepted", "rejected"} :
          UpdateRecommendationStatus(u, r, s)
    \/ \E u \in Users, t \in 1..MaxTxns : ReverseTransaction(u, t)

\* Concurrent executions: executeRecommendation calls on every connection of the
\* pool, over recommendations generated for a holding whose quantity its owner
\* edits.
NextConc ==
    \/ \E p \in Procs : ExecStep(p)
    \/ \E u \in Owners : GenerateRecommendations(u)
    \/ \E u \in Owners, h \in HoldingIds, q \in 1..MaxQty : UpdateHolding(u, h, q)

\* The recommendation lifecycle: executions one at a time, among status updates
\* and edits of the holdings.
NextSeq ==
    \/ ExecStep(1)
    \/ \E u \in Owners : GenerateRecommendations(u)
    \/ \E u \in Users, r \in 1..MaxRecs, s \in {"accepted", "rejected"} :
          UpdateRecommendationStatus(u, r, s)
    \/ \E u \in Owners, h \in HoldingIds, q \in 1..MaxQty : UpdateHolding(u, h, q)

\* The ledger with a reversal route that may be called once more than in Next,
\* so that a transaction can be reversed a second time.
NextRepeat ==
    \/ ExecStep(1)
    \/ \E u \in Owners, h \in HoldingIds \cup {NULL}, type \in {"buy", "sell"},
          q \in 1..MaxQty : CreateTransaction(u, h, type, q)
    \/ \E u \in Owners : GenerateRecommendations(u)
    \/ \E u \in Users, t \in 1..MaxTxns :
          ReverseTransactionWithin(u, t, MaxReversals + 1)

Spec == Init /\ [][Next]_vars

SpecRepeat == Init /\ [][NextRepeat]_vars

SpecSeq == Init /\ [][NextSeq]_vars

SpecConc == Init /\ [][NextConc]_vars

(***************************************************************************)
(* The carry-forward ledger (carryforward.service.ts).  A financial year   *)
(* 'YYYY-YY' is its start year, counted from the first year of the ledger; *)
(* the strings have one width, so SQL's <= on them orders them as their    *)
(* start years.                                                            *)
(***************************************************************************)
\* expiresIn: 8 // 8 years from date of loss
ExpiryYears == 8

SourceYears == {0, 1}
TargetYears == {1, ExpiryYears, ExpiryYears + 1}

\* getNextFinancialYear
GetNextFinancialYear(fy) == fy + 1

\* calculateYearsDifference
CalculateYearsDifference(fromFY, toFY) == toFY - fromFY

\* The carry_forward row calculateCarryForward(u, y) stores when a net loss is
\* left: keyed to the next financial year, report_data.sourceYear = y.
CarryForwardRow(u, y, st, lt) ==
    [user |-> u, financial_year |-> GetNextFinancialYear(y),
     report_type |-> "carry_forward", st_gain |-> 0, lt_gain |-> 0,
     st_loss |-> st, lt_loss |-> lt,
     sourceYear |-> y, expiresIn |-> ExpiryYears]

\* The tax summary row of user u for year y: total_short_term_gains,
\* total_long_term_gains, total_short_term_losses, total_long_term_losses; its
\* report_data names no source year (-1) and no expiry.
SummaryRow(u, y, totals) ==
    [user |-> u, financial_year |-> y,
     report_type |-> "capital_gains", st_gain |-> totals[1], lt_gain |-> totals[2],
     st_loss |-> totals[3], lt_loss |-> totals[4],
     sourceYear |-> -1, expiresIn |-> 0]

\* The totals of a summary row: no loss, losses within the gains, a short-term
\* loss above the gain, losses of both kinds.
SummaryTotals ==
    {<<MaxGain, 0, 0, 0>>, <<MaxGain, MaxGain, MaxLoss, MaxLoss>>,
     <<0, MaxGain, MaxLoss, 0>>, <<0, 0, MaxLoss, MaxLoss>>}

\* if (netSTLoss > 0 || netLTLoss > 0): the losses a stored row can carry.
StoredLosses ==
    {l \in (0..MaxLoss) \X (0..MaxLoss) : l[1] > 0 \/ l[2] > 0}

\* The (user, source year) pairs of the row-creating user's rows.
LedgerKeys == Owners \X SourceYears

\* The summary rows the row-creating user may hold: at most one per year.
SummaryLedgers ==
    {{SummaryRow(k[1], k[2], f[k]) : k \in {k \in LedgerKeys : f[k] # <<>>}} :
        f \in [LedgerKeys -> SummaryTotals \cup {<<>>}]}

\* The row another user may hold.
OtherRows == {CarryForwardRow(u, 0, MaxLoss, MaxLoss) : u \in Users \ Owners}

\* The carry_forward rows a ledger may hold: at most one per user and source
\* year.
CarryForwardLedgers ==
    {{CarryForwardRow(k[1], k[2], f[k][1], f[k][2]) :
           k \in {k \in LedgerKeys : f[k] # <<0, 0>>}} \cup others :
        f \in [LedgerKeys -> StoredLosses \cup {<<0, 0>>}], others \in SUBSET OtherRows}

\* A ledger: at most one carry_forward row per user and source year.
CfLedger ==
    /\ reports \in CarryForwardLedgers
    /\ cfResult = [op |-> "none"]

\* A ledger at a year-end: the carry_forward rows of earlier years and the
\* summary rows of the years to record.
YearEndLedger ==
    /\ \E rows \in CarryForwardLedgers, summaries \in SummaryLedgers :
          reports = rows \cup summaries
    /\ cfResult = [op |-> "none"]

RECURSIVE SumST(_)
SumST(rows) ==
    IF rows = {} THEN 0
    ELSE LET row == CHOOSE x \in rows : TRUE IN row.stLoss + SumST(rows \ {row})

RECURSIVE SumLT(_)
SumLT(rows) ==
    IF rows = {} THEN 0
    ELSE LET row == CHOOSE x \in rows : TRUE IN row.ltLoss + SumLT(rows \ {row})

\* SELECT ... FROM tax_reports WHERE user_id = u
\*  AND report_type = 'carry_forward' AND financial_year <= T
CarryForwardRows(u, T) ==
    {row \in reports : /\ row.user = u
                       /\ row.report_type = "carry_forward"
                       /\ row.financial_year <= T}

\* getAvailableCarryForward(u, T): the rows mapped to details and summed.
AvailableCarryForward(u, T) ==
    LET details == {[sourceYear |-> row.sourceYear, stLoss |-> row.st_loss,
                     ltLoss |-> row.lt_loss, expiresIn |-> row.expiresIn] :
                        row \in CarryForwardRows(u, T)}
    IN  [totalSTCarryForward |-> SumST(details),
         totalLTCarryForward |-> SumLT(details),
         details |-> details,
         count |-> Cardinality(details)]

\* The offsets with the long-term loss applied to what is left of either gain.
OffsetGainsLTAnywhere(S, L, ST, LT) ==
    LET stOffset == Min(ST, S)
        remST == ST - stOffset
        ltFromST == Min(LT, S - stOffset)
        remLT == LT - ltFromST
        ltOnST == Min(remST, L)
        ltOffset == Min(remLT, L - ltOnST)
    IN  [adjustedSTGain |-> remST - ltOnST, adjustedLTGain |-> remLT - ltOffset,
         stLossUsed |-> stOffset + ltFromST, ltLossUsed |-> ltOnST + ltOffset]

\* applyCarryForward's offsets: the short-term loss S against the short-term
\* gain, what is left of S against the long-term gain, then the long-term loss
\* L against the long-term gain.
OffsetGains(S, L, ST, LT) ==
    LET stOffset == IF S > 0 THEN Min(ST, S) ELSE 0
        remainingSTGain == ST - stOffset
        remainingSTLoss == S - stOffset
        ltFromST == IF S > 0 /\ remainingSTLoss > 0 /\ LT > 0
                    THEN Min(LT, remainingSTLoss) ELSE 0
        remainingLTGain == LT - ltFromST
        ltOffset == IF L > 0 /\ remainingLTGain > 0
                    THEN Min(remainingLTGain, L) ELSE 0
    IN  [adjustedSTGain |-> remainingSTGain,
         adjustedLTGain |-> remainingLTGain - ltOffset,
         stLossUsed |-> stOffset + ltFromST,
         ltLossUsed |-> ltOffset]

\* getAvailableCarryForward(u, T)
GetAvailableCarryForward(u, T) ==
    /\ cfResult' = [op |-> "getAvailable", user |-> u, financialYear |-> T,
                    result |-> AvailableCarryForward(u, T)]
    /\ UNCHANGED <<reports, dbVars, wsVars, taxVars>>

\* A ledger from which the records the offsets used are removed.
LedgerDecremented(rows, u, T, o) ==
    {row \in rows : ~ (/\ row.user = u
                       /\ row.report_type = "carry_forward"
                       /\ row.financial_year <= T
                       /\ o.stLossUsed + o.ltLossUsed > 0)}

\* The ledger after applyCarryForward: the call issues the SELECT of
\* getAvailableCarryForward and no INSERT, UPDATE or DELETE.
LedgerAfterApply(rows, u, T, o) == rows

\* applyCarryForward(u, T, currentSTGain, currentLTGain); taxSaved in hundredths:
\* stLossUsed * 0.15 + ltLossUsed * 0.10.
ApplyCarryForward(u, T, ST, LT) ==
    LET cf == AvailableCarryForward(u, T)
        o == OffsetGains(cf.totalSTCarryForward, cf.totalLTCarryForward, ST, LT)
    IN
    /\ cfResult' = [op |-> "apply", user |-> u, financialYear |-> T,
                    result |-> [originalSTGain |-> ST, originalLTGain |-> LT,
                                adjustedSTGain |-> o.adjustedSTGain,
                                adjustedLTGain |-> o.adjustedLTGain,
                                stLossUsed |-> o.stLossUsed,
                                ltLossUsed |-> o.ltLossUsed,
                                totalLossUsed |-> o.stLossUsed + o.ltLossUsed,
                                taxSaved100 |-> o.stLossUsed * 15 + o.ltLossUsed * 10,
                                carryForwardApplied |-> TRUE]]
    /\ reports' = LedgerAfterApply(reports, u, T, o)
    /\ UNCHANGED <<dbVars, wsVars, taxVars>>

\* Whether tax_reports has a unique constraint on (user_id, financial_year,
\* report_type), which ON CONFLICT (user_id, financial_year, report_type) needs:
\* schema.sql declares the primary key report_id and no other.
ReportKeyIsUnique == FALSE

\* INSERT ... ON CONFLICT (user_id, financial_year, report_type) DO UPDATE SET
\* the losses and report_data, on a table where that key is unique.
UpsertReport(rows, row) ==
    {x \in rows : ~ (/\ x.user = row.user
                     /\ x.financial_year = row.financial_year
                     /\ x.report_type = row.report_type)} \cup {row}

\* SELECT ... FROM tax_reports WHERE user_id = u AND financial_year = y
\*  ORDER BY generated_at DESC LIMIT 1: any row of that user and year, whatever
\* its report_type, may be the latest.
LatestReports(u, y) == {row \in reports : row.user = u /\ row.financial_year = y}

\* calculateCarryForward(u, y).  Without the unique constraint PostgreSQL
\* rejects the INSERT ("no unique or exclusion constraint matching the ON
\* CONFLICT specification"), and the catch block rethrows.  The call's record
\* keeps the report_type of the row it read and the net losses it computed.
CalculateCarryForward(u, y) ==
    /\ IF LatestReports(u, y) = {}
       THEN /\ cfResult' = [op |-> "calculate", user |-> u, financialYear |-> y,
                            found |-> FALSE, read |-> "none", threw |-> FALSE,
                            result |-> [stCarryForward |-> 0, ltCarryForward |-> 0]]
            /\ UNCHANGED reports
       ELSE \E tax \in LatestReports(u, y) :
            LET netSTLoss == Max(0, tax.st_loss - tax.st_gain)
                netLTLoss == Max(0, tax.lt_loss - tax.lt_gain)
                stored == netSTLoss > 0 \/ netLTLoss > 0
            IN  /\ cfResult' = [op |-> "calculate", user |-> u, financialYear |-> y,
                                found |-> TRUE, read |-> tax.report_type,
                                threw |-> stored /\ ~ ReportKeyIsUnique,
                                result |-> [stCarryForward |-> netSTLoss,
                                            ltCarryForward |-> netLTLoss]]
                /\ IF stored /\ ReportKeyIsUnique
                   THEN reports' = UpsertReport(reports,
                                        CarryForwardRow(u, y, netSTLoss, netLTLoss))
                   ELSE UNCHANGED reports
    /\ UNCHANGED <<dbVars, wsVars, taxVars>>

InitCF == InitDb /\ CfLedger /\ WsEmpty /\ TaxIdle

NextCF ==
    \/ \E u \in Users, T \in TargetYears : GetAvailableCarryForward(u, T)
    \/ \E u \in Users, T \in TargetYears, ST \in 0..MaxGain, LT \in 0..MaxGain :
          ApplyCarryForward(u, T, ST, LT)

SpecCF == InitCF /\ [][NextCF]_vars

\* Year-end recording over ledgers that hold the summaries of the years.
InitYearEnd == InitDb /\ YearEndLedger /\ WsEmpty /\ TaxIdle

NextYearEnd == \E u \in Users, y \in SourceYears : CalculateCarryForward(u, y)

SpecYearEnd == InitYearEnd /\ [][NextYearEnd]_vars

(***************************************************************************)
(* The wash-sale guard (WashSaleService.checkWashSale).  Time is counted   *)
(* in ticks, TicksPerDay to the day; transaction_date is a DATE, the       *)
(* midnight of its day; proposedBuyDate carries a time of day.             *)
(***************************************************************************)
\* private readonly WASH_SALE_DAYS = 30
WASH_SALE_DAYS == 30

\* (1000 * 60 * 60 * 24): the length of a day in the unit of Date.getTime(),
\* here half a day.
TicksPerDay == 2

Symbols == {"TCS", "INFY"}

\* Math.floor instead of Math.ceil.
FloorDays(ticks) ==
    IF ticks >= 0 THEN ticks \div TicksPerDay
    ELSE - (((- ticks) + TicksPerDay - 1) \div TicksPerDay)

\* Math.ceil(ticks / (one day)), for ticks of either sign.
CeilDays(ticks) ==
    IF ticks >= 0 THEN (ticks + TicksPerDay - 1) \div TicksPerDay
    ELSE - ((- ticks) \div TicksPerDay)

\* Rows of transactions, as far as the guard reads them.
WsRows ==
    [user : Users, asset_symbol : Symbols, type : {"buy", "sell"},
     transaction_date : {d * TicksPerDay : d \in 0..MaxSellDay}]

WsLedger ==
    /\ \E n \in 0..MaxWsTxns : \E rows \in [1..n -> WsRows] :
          wsTxns = {rows[i] : i \in 1..n}
    /\ wsResult = [op |-> "none"]

\* The days a buy is proposed on: the day of a sell, 15 days later, and the
\* days around the end of its window.
BuyDays ==
    {d + k : d \in 0..MaxSellDay,
             k \in {0, 15, WASH_SALE_DAYS - 1, WASH_SALE_DAYS, WASH_SALE_DAYS + 1}}

\* proposedBuyDate: a day and a time of day.
BuyDates == {d * TicksPerDay + f : d \in BuyDays, f \in 0..(TicksPerDay - 1)}

\* SELECT * FROM transactions WHERE user_id = u AND asset_symbol = sym
\*  AND type = 'sell' AND transaction_date >= buyDate - 30 days
\*  AND transaction_date <= buyDate
RecentSells(u, sym, buyDate) ==
    {row \in wsTxns : /\ row.user = u
                      /\ row.asset_symbol = sym
                      /\ row.type = "sell"
                      /\ row.transaction_date >= buyDate - WASH_SALE_DAYS * TicksPerDay
                      /\ row.transaction_date <= buyDate}

\* ORDER BY transaction_date DESC, rows[0]
MostRecentSell(rows) ==
    CHOOSE row \in rows : \A other \in rows : other.transaction_date <= row.transaction_date

\* The whole days left of the window that opened at sellDate.
DaysRemaining(sellDate, buyDate) ==
    CeilDays(sellDate + WASH_SALE_DAYS * TicksPerDay - buyDate)

\* The WashSaleCheck that checkWashSale(u, sym, buyDate) returns.
WashSaleCheck(u, sym, buyDate) ==
    LET recentSells == RecentSells(u, sym, buyDate) IN
    IF recentSells = {}
    THEN [isWashSale |-> FALSE, recentSellDate |-> NULL, canBuyBackAfter |-> NULL,
          daysRemaining |-> 0, warning |-> NULL]
    ELSE LET sellDate == MostRecentSell(recentSells).transaction_date
             daysRemaining == DaysRemaining(sellDate, buyDate)
             isWashSale == daysRemaining > 0
         IN  [isWashSale |-> isWashSale,
              recentSellDate |-> sellDate,
              canBuyBackAfter |-> sellDate + WASH_SALE_DAYS * TicksPerDay,
              daysRemaining |-> Max(0, daysRemaining),
              warning |-> IF isWashSale THEN <<sym, sellDate, daysRemaining>>
                          ELSE NULL]

\* checkWashSale(u, sym, proposedBuyDate)
CheckWashSale(u, sym, buyDate) ==
    /\ wsResult' = [op |-> "checkWashSale", user |-> u, assetSymbol |-> sym,
                    buyDate |-> buyDate, result |-> WashSaleCheck(u, sym, buyDate)]
    /\ UNCHANGED <<wsTxns, dbVars, cfVars, taxVars>>

InitWS == InitDb /\ CfEmpty /\ WsLedger /\ TaxIdle

NextWS ==
    \E u \in Users, sym \in Symbols, buyDate \in BuyDates :
        CheckWashSale(u, sym, buyDate)

SpecWS == InitWS /\ [][NextWS]_vars

(***************************************************************************)
(* The reverse guard (WashSaleService.checkReverseWashSale).               *)
(***************************************************************************)
\* The days a sell is proposed on: the day of a buy, the next day, 15 days
\* later, and the days around the end of its window.
SellDays ==
    {d + k : d \in 0..MaxSellDay,
             k \in {0, 1, 15, WASH_SALE_DAYS - 1, WASH_SALE_DAYS, WASH_SALE_DAYS + 1}}

\* proposedSellDate: a day and a time of day.
SellDates == {d * TicksPerDay + f : d \in SellDays, f \in 0..(TicksPerDay - 1)}

\* SELECT * FROM transactions WHERE user_id = u AND asset_symbol = sym
\*  AND type = 'buy' AND transaction_date >= sellDate - 30 days
\*  AND transaction_date < sellDate
RecentBuys(u, sym, sellDate) ==
    {row \in wsTxns : /\ row.user = u
                      /\ row.asset_symbol = sym
                      /\ row.type = "buy"
                      /\ row.transaction_date >= sellDate - WASH_SALE_DAYS * TicksPerDay
                      /\ row.transaction_date < sellDate}

\* ORDER BY transaction_date DESC, rows[0]
MostRecentBuy(rows) ==
    CHOOSE row \in rows : \A other \in rows : other.transaction_date <= row.transaction_date

\* The WashSaleCheck that checkReverseWashSale(u, sym, sellDate) returns.
ReverseWashSaleCheck(u, sym, sellDate) ==
    LET recentBuys == RecentBuys(u, sym, sellDate) IN
    IF recentBuys # {}
    THEN LET buyDate == MostRecentBuy(recentBuys).transaction_date
             daysSinceBuy == CeilDays(sellDate - buyDate)
         IN  [isWashSale |-> TRUE,
              recentSellDate |-> buyDate,
              canBuyBackAfter |-> sellDate + WASH_SALE_DAYS * TicksPerDay,
              daysRemaining |-> WASH_SALE_DAYS - daysSinceBuy,
              warning |-> <<sym, daysSinceBuy, WASH_SALE_DAYS - daysSinceBuy>>]
    ELSE [isWashSale |-> FALSE, recentSellDate |-> NULL, canBuyBackAfter |-> NULL,
          daysRemaining |-> 0, warning |-> NULL]

\* checkReverseWashSale(u, sym, proposedSellDate)
CheckReverseWashSale(u, sym, sellDate) ==
    /\ wsResult' = [op |-> "checkReverseWashSale", user |-> u, assetSymbol |-> sym,
                    sellDate |-> sellDate,
                    result |-> ReverseWashSaleCheck(u, sym, sellDate)]
    /\ UNCHANGED <<wsTxns, dbVars, cfVars, taxVars>>

NextWSReverse ==
    \E u \in Users, sym \in Symbols, sellDate \in SellDates :
        CheckReverseWashSale(u, sym, sellDate)

SpecWSReverse == InitWS /\ [][NextWSReverse]_vars

(***************************************************************************)
(* The wash-sale history (WashSaleService.getWashSaleHistory).  Days are   *)
(* counted from April 1 of the first financial year.                       *)
(***************************************************************************)
\* new Date(`${startYear}-04-01`) and new Date(`${startYear + 1}-03-31`), as days.
FyStartDay(fy) == fy * 365
FyEndDay(fy) == fy * 365 + 364

\* A row of transactions, as far as the history reads it.
HistoryRow(u, sym, type, day, price, q) ==
    [user |-> u, asset_symbol |-> sym, type |-> type,
     transaction_date |-> day * TicksPerDay, price |-> price, quantity |-> q]

\* The sells of the history ledger: by the row-creating user, on the day before
\* the year, on its first and on its last day, at price 2.
HistorySells ==
    {HistoryRow(u, "TCS", "sell", d, 2, q) :
        u \in Owners, d \in {FyStartDay(0) - 1, FyStartDay(0), FyEndDay(0)},
        q \in {1, MaxQty}}

\* The buys of the history ledger: the user's repurchases on the first day of
\* the year and 1, 14, 30 and 31 days later, below the sell price in a small
\* quantity or above it in a large one; a buy of another symbol and a buy by
\* another user.
HistoryBuys ==
    {HistoryRow(u, "TCS", "buy", FyStartDay(0) + k, pq[1], pq[2]) :
        u \in Owners, k \in {0, 1, 14, WASH_SALE_DAYS, WASH_SALE_DAYS + 1},
        pq \in {<<1, 1>>, <<3, MaxQty>>}}
    \cup {HistoryRow(u, "INFY", "buy", FyStartDay(0) + 14, 1, 1) : u \in Owners}
    \cup {HistoryRow(u, "TCS", "buy", FyStartDay(0) + 14, 1, 1) : u \in Users \ Owners}

HistoryLedger ==
    /\ \E n \in 0..MaxHistTxns : \E rows \in [1..n -> HistorySells \cup HistoryBuys] :
          wsTxns = {rows[i] : i \in 1..n}
    /\ wsResult = [op |-> "none"]

\* SELECT * FROM transactions WHERE user_id = u AND type = 'sell'
\*  AND transaction_date BETWEEN fyStart AND fyEnd
SellsInYear(u, fy) ==
    {row \in wsTxns : /\ row.user = u
                      /\ row.type = "sell"
                      /\ row.transaction_date >= FyStartDay(fy) * TicksPerDay
                      /\ row.transaction_date <= FyEndDay(fy) * TicksPerDay}

\* SELECT * FROM transactions WHERE user_id = u AND asset_symbol = sell's
\*  AND type = 'buy' AND transaction_date > sell's
\*  AND transaction_date <= sell's + 30 days
Repurchases(u, sell) ==
    {row \in wsTxns : /\ row.user = u
                      /\ row.asset_symbol = sell.asset_symbol
                      /\ row.type = "buy"
                      /\ row.transaction_date > sell.transaction_date
                      /\ row.transaction_date
                             <= sell.transaction_date + WASH_SALE_DAYS * TicksPerDay}

\* ORDER BY transaction_date LIMIT 1: the rows that may come first.
FirstRepurchases(u, sell) ==
    {row \in Repurchases(u, sell) :
        \A other \in Repurchases(u, sell) :
            row.transaction_date <= other.transaction_date}

\* The quantity with the larger of the two.
LargerQuantity(a, b) == IF a >= b THEN a ELSE b

\* Math.min(sell.quantity, buy.quantity)
MatchedQuantity(a, b) == IF a <= b THEN a ELSE b

\* The entry pushed for a sell and its repurchase.
WashSalePair(sell, buy) ==
    [sell |-> sell,
     assetSymbol |-> sell.asset_symbol,
     sellDate |-> sell.transaction_date,
     sellPrice |-> sell.price,
     sellQuantity |-> sell.quantity,
     repurchaseDate |-> buy.transaction_date,
     repurchasePrice |-> buy.price,
     repurchaseQuantity |-> buy.quantity,
     daysBetween |-> CeilDays(buy.transaction_date - sell.transaction_date),
     lossDisallowed |-> (sell.price - buy.price)
                            * MatchedQuantity(sell.quantity, buy.quantity)]

\* getWashSaleHistory(u, FY): one entry per sell of the year that has a
\* repurchase; the entries are kept as a set, each with the sell row it is for.
GetWashSaleHistory(u, fy) ==
    LET repurchased == {sell \in SellsInYear(u, fy) : Repurchases(u, sell) # {}} IN
    /\ \E first \in [repurchased -> wsTxns] :
          /\ \A sell \in repurchased : first[sell] \in FirstRepurchases(u, sell)
          /\ wsResult' = [op |-> "getWashSaleHistory", user |-> u,
                          financialYear |-> fy,
                          result |-> {WashSalePair(sell, first[sell]) :
                                          sell \in repurchased}]
    /\ UNCHANGED <<wsTxns, dbVars, cfVars, taxVars>>

InitWSHistory == InitDb /\ CfEmpty /\ HistoryLedger /\ TaxIdle

NextWSHistory == \E u \in Users : GetWashSaleHistory(u, 0)

SpecWSHistory == InitWSHistory /\ [][NextWSHistory]_vars


(***************************************************************************)
(* The tax calculator's calls, over portfolios of every shape.             *)
(***************************************************************************)
\* calculateTax(u, FY)
CalculateTax(u) ==
    /\ taxResult' = [op |-> "calculateTax", user |-> u,
                     result |-> UserTaxSummary(u, taxConfig)]
    /\ UNCHANGED <<dbVars, cfVars, wsVars, taxConfig>>

\* The rows of tax_recommendations with their ids, in creation order.
RecsWithIds == [i \in 1..Len(recs) |-> [recommendationId |-> i, row |-> recs[i]]]

\* getRecommendations(u, status): WHERE user_id = u [AND status = status]
\*  ORDER BY priority_score DESC, created_at DESC
RecommendationsOf(u, status) ==
    LET rows == SelectSeq(RecsWithIds,
                    LAMBDA x : x.row.user = u
                               /\ (status # NULL => x.row.status = status))
        keyed == [i \in 1..Len(rows) |->
                    [recommendationId |-> rows[i].recommendationId,
                     priority_score |-> rows[i].row.priority_score,
                     status |-> rows[i].row.status]]
    IN  OrderByPriorityCreatedDesc(keyed)

\* getRecommendations(u, status)
GetRecommendations(u, status) ==
    /\ taxResult' = [op |-> "getRecommendations", user |-> u, status |-> status,
                     result |-> RecommendationsOf(u, status)]
    /\ UNCHANGED <<dbVars, cfVars, wsVars, taxConfig>>

\* Amounts of compareRegimes are in thousands of rupees, rates in percent.
\* { min, max, rate } with max: Infinity as open.
OLD_REGIME_SLABS ==
    << [min |-> 0, max |-> 250, open |-> FALSE, rate |-> 0],
       [min |-> 250, max |-> 500, open |-> FALSE, rate |-> 5],
       [min |-> 500, max |-> 1000, open |-> FALSE, rate |-> 20],
       [min |-> 1000, max |-> 1000, open |-> TRUE, rate |-> 30] >>

NEW_REGIME_SLABS ==
    << [min |-> 0, max |-> 300, open |-> FALSE, rate |-> 0],
       [min |-> 300, max |-> 600, open |-> FALSE, rate |-> 5],
       [min |-> 600, max |-> 900, open |-> FALSE, rate |-> 10],
       [min |-> 900, max |-> 1200, open |-> FALSE, rate |-> 15],
       [min |-> 1200, max |-> 1500, open |-> FALSE, rate |-> 20],
       [min |-> 1500, max |-> 1500, open |-> TRUE, rate |-> 30] >>

\* calculateSlabTax(income, slabs), times 100.
CalculateSlabTax100(income, slabs) ==
    SumSeq([i \in 1..Len(slabs) |->
        IF income > slabs[i].min
        THEN ((IF slabs[i].open THEN income ELSE Min(income, slabs[i].max))
                  - slabs[i].min) * slabs[i].rate
        ELSE 0])

\* calculateCapitalGainsTax(gains), times 1000: 20%, 12.5% above 100, 30%.
CalculateCapitalGainsTax1000(gains) ==
    gains.shortTermEquity * 200
        + Max(0, gains.longTermEquity - 100) * 125
        + (gains.shortTermCrypto + gains.longTermCrypto) * 300

\* getTotalCapitalGains(gains)
GetTotalCapitalGains(gains) ==
    gains.shortTermEquity + gains.longTermEquity
        + gains.shortTermCrypto + gains.longTermCrypto

\* calculateSurcharge(tax, totalIncome): the rate in percent applied to tax.
SurchargePercent(totalIncome) ==
    IF totalIncome <= 5000 THEN 0
    ELSE IF totalIncome <= 10000 THEN 10
    ELSE IF totalIncome <= 20000 THEN 15
    ELSE IF totalIncome <= 50000 THEN 25
    ELSE 37

\* incomeTax + surcharge + cess + capitalGainsTax, times 1000000, from the slab
\* tax times 100: surcharge = tax * percent / 100, cess = (tax + surcharge) * 0.04.
TotalTax1e6(incomeTax100, totalIncomeWithGains, gains) ==
    LET pct == SurchargePercent(totalIncomeWithGains) IN
    incomeTax100 * 10000
        + incomeTax100 * pct * 100
        + (incomeTax100 * 100 + incomeTax100 * pct) * 4
        + CalculateCapitalGainsTax1000(gains) * 1000

\* calculateOldRegime(input)
CalculateOldRegime(input) ==
    LET d == input.deductions
        totalDeductions ==
            Min(d.section80C + d.section80D + d.homeLoanInterest + d.nps + d.other,
                350)
        taxableIncome == Max(0, input.totalIncome - totalDeductions)
        incomeTax100 == CalculateSlabTax100(taxableIncome, OLD_REGIME_SLABS)
    IN  [incomeTax100 |-> incomeTax100,
         totalTax1e6 |-> TotalTax1e6(incomeTax100,
                            input.totalIncome + GetTotalCapitalGains(input.capitalGains),
                            input.capitalGains),
         deductionsUsed |-> totalDeductions]

\* calculateNewRegime(input)
CalculateNewRegime(input) ==
    LET incomeTax100 == CalculateSlabTax100(input.totalIncome, NEW_REGIME_SLABS)
    IN  [incomeTax100 |-> incomeTax100,
         totalTax1e6 |-> TotalTax1e6(incomeTax100,
                            input.totalIncome + GetTotalCapitalGains(input.capitalGains),
                            input.capitalGains),
         deductionsUsed |-> 0]

\* The TaxComparison compareRegimes(input) returns.
TaxComparison(input) ==
    LET oldRegime == CalculateOldRegime(input)
        newRegime == CalculateNewRegime(input)
        savings == oldRegime.totalTax1e6 - newRegime.totalTax1e6
    IN  [oldRegime |-> oldRegime, newRegime |-> newRegime,
         recommendation |-> IF oldRegime.totalTax1e6 < newRegime.totalTax1e6
                            THEN "OLD" ELSE "NEW",
         savings1e6 |-> Abs(savings)]

\* compareRegimes(input)
CompareRegimes(input) ==
    /\ taxResult' = [op |-> "compareRegimes", input |-> input,
                     result |-> TaxComparison(input)]
    /\ UNCHANGED <<dbVars, cfVars, wsVars, taxConfig>>

\* The inputs of compareRegimes: incomes around the slab limits, the deductions
\* of sections 80C and 80D, a home loan, and capital gains.
RegimeInputs ==
    [totalIncome : {0, 300, 500, 1000, 1500, 5500},
     deductions : [section80C : {0, 150}, section80D : {0, 25},
                   homeLoanInterest : {0, 200}, nps : {0}, other : {0}],
     capitalGains : {[shortTermEquity |-> 0, longTermEquity |-> 0,
                      shortTermCrypto |-> 0, longTermCrypto |-> 0],
                     [shortTermEquity |-> 100, longTermEquity |-> 300,
                      shortTermCrypto |-> 0, longTermCrypto |-> 0],
                     [shortTermEquity |-> 0, longTermEquity |-> 0,
                      shortTermCrypto |-> 0, longTermCrypto |-> 50]}]

\* tax_config rows: the default one, and one whose exemption and surcharge
\* threshold are within the gains of the portfolios below.
TaxConfigs ==
    {DefaultTaxConfig,
     [DefaultTaxConfig EXCEPT !.longTermEquityExemption = 10,
                              !.surchargeThreshold = 20]}

\* <<average_buy_price, current_price>>: a loss of 95%, a loss of 5%, a gain,
\* and a holding that has no quote yet (0).
PricePairs == {<<20, 1>>, <<20, 19>>, <<2, 25>>, <<2, 0>>}

\* Holdings as the portfolio routes store them: a quantity of 1 or MaxQty, held
\* for 364, 365 or 1095 days.
PortfolioRows(users) ==
    {HoldingRow(u, atype, q, pp[1], pp[2], days) :
        u \in users, atype \in {"stock", "crypto"}, q \in {1, MaxQty},
        pp \in PricePairs, days \in {364, 365, 1095}}

InitTax ==
    /\ holdings \in [HoldingIds -> PortfolioRows(Users)]
    /\ \A h \in HoldingIds : h = "h1" => holdings[h].user \in Owners
    /\ transactions = <<>>
    /\ recs = <<>>
    /\ proc = [p \in Procs |-> IdleProc]
    /\ executedOk = {}
    /\ CfEmpty /\ WsEmpty
    /\ taxConfig \in TaxConfigs
    /\ taxResult = [op |-> "none"]

NextTax ==
    \/ \E u \in Users : CalculateTax(u)
    \/ \E u \in Users : GenerateRecommendations(u)
    \/ \E u \in Users, status \in {NULL, "pending"} : GetRecommendations(u, status)

SpecTax == InitTax /\ [][NextTax]_vars

\* compareRegimes reads no table: it is called on an untouched database.
InitRegime == InitDb /\ CfEmpty /\ WsEmpty /\ TaxIdle

NextRegime == \E input \in RegimeInputs : CompareRegimes(input)

SpecRegime == InitRegime /\ [][NextRegime]_vars

(***************************************************************************)
(* Properties of the executor and the ledger.                              *)
(***************************************************************************)
\* The rows of transactions that executions of recommendation r inserted.
ExecutionSells(r) ==
    {t \in 1..Len(transactions) :
        transactions[t].platform = "tlh_execution" /\ transactions[t].rec = r}

\* The committed tables, as every other operation sees them.
Committed == <<holdings, transactions, recs>>

\* C1: however two or more executeRecommendation calls on the same
\* recommendation id interleave, at most one of them commits: the table holds
\* at most one sell row inserted for that recommendation.
C1_AtMostOneSellPerRecommendation ==
    \A r \in 1..MaxRecs : Cardinality(ExecutionSells(r)) <= 1

\* C2: once an execution of recommendation r has committed, every later
\* executeRecommendation(u, r) ends with 'not found or already executed' at its
\* first SELECT and leaves holdings, transactions and recommendations as they
\* were.
C2_ExecutedCannotExecuteAgain ==
    [][\A p \in Procs :
          (proc[p].pc = "idle" /\ proc'[p].pc # "idle" /\ proc'[p].rec \in executedOk)
              => /\ proc'[p].pc = "threw"
                 /\ proc'[p].error = "notfound"
                 /\ Committed' = Committed]_vars

\* A second call by the owner on an executed recommendation was refused.
C2_Witness ==
    \E p \in Procs :
        /\ proc[p].pc = "threw"
        /\ proc[p].error = "notfound"
        /\ proc[p].rec \in executedOk
        /\ proc[p].user = recs[proc[p].rec].user
        /\ recs[proc[p].rec].status = "accepted"
        /\ Cardinality(ExecutionSells(proc[p].rec)) = 1

\* C3: executeRecommendation is all-or-nothing.  A call that throws leaves the
\* committed tables as they were; no statement before COMMIT changes what the
\* other operations see; the COMMIT shows the three effects together: the sell
\* row, the holding updated or deleted, the recommendation accepted.
C3_AllOrNothing ==
    [][\A p \in Procs :
          /\ (proc[p].pc # "threw" /\ proc'[p].pc = "threw")
                => Committed' = Committed
          /\ (proc[p].pc \in InTxnPcs \cup {"idle"} /\ proc'[p].pc \in InTxnPcs
                /\ proc'[p] # proc[p])
                => Committed' = Committed
          /\ (proc[p].pc = "commit" /\ proc'[p].pc = "returned")
                => LET h == proc[p].holding_id
                       r == proc[p].rec
                       row == transactions'[Len(transactions')]
                   IN  /\ Len(transactions') = Len(transactions) + 1
                       /\ row.type = "sell" /\ row.rec = r
                       /\ row.quantity = proc[p].quantity
                       /\ recs'[r].status = "accepted"
                       /\ \/ ~ holdings'[h].exists
                          \/ holdings'[h].quantity = proc[p].newQuantity]_vars

\* A call failed at its status UPDATE, after its INSERT and its holding
\* UPDATE/DELETE had run, and nothing of it is in the tables.
C3_Witness ==
    \E p \in Procs :
        /\ proc[p].pc = "threw"
        /\ proc[p].error = "mark"
        /\ recs[proc[p].rec].status = "pending"
        /\ ExecutionSells(proc[p].rec) = {}
        /\ recs[proc[p].rec].holding_id \in HoldingIds
        /\ holdings[recs[proc[p].rec].holding_id].quantity > 0

\* C4: only a pending recommendation changes status: an accepted, rejected or
\* expired recommendation keeps its status in every step.
C4_OnlyPendingChangesStatus ==
    [][\A r \in 1..Len(recs) :
          recs[r].status # "pending" => recs'[r].status = recs[r].status]_vars

\* C5: every existing holding has quantity >= 0 after any sequence of
\* createTransaction, executeRecommendation and reverseTransaction calls.
C5_QuantityNonNegative ==
    \A h \in HoldingIds : holdings[h].exists => holdings[h].quantity >= 0

\* C6: executions are not serialized on the holding: the COMMIT of an execution
\* that updates the holding leaves the quantity computed from the quantity the
\* call read at its SELECT, whatever quantity is committed by then.
C6_AbsoluteWriteFromOwnRead ==
    [][\A p \in Procs :
          (proc[p].pc = "commit" /\ proc'[p].pc = "returned" /\ proc[p].hop = "update")
              => holdings'[proc[p].holding_id].quantity
                     = proc[p].hq - proc[p].quantity]_vars

\* Two distinct recommendations on one holding were executed; both read the
\* same quantity, both committed their sell, and the holding shows only the
\* decrement of the second.
C6_Witness ==
    \E i, j \in 1..Len(transactions), h \in HoldingIds :
        LET a == transactions[i]
            b == transactions[j]
        IN  /\ i < j
            /\ a.platform = "tlh_execution" /\ b.platform = "tlh_execution"
            /\ a.rec # b.rec
            /\ a.holding_id = h /\ b.holding_id = h
            /\ a.readQty = b.readQty
            /\ b.seenQty = a.readQty - a.quantity
            /\ holdings[h].exists
            /\ holdings[h].quantity = b.readQty - b.quantity
            /\ holdings[h].quantity # a.readQty - a.quantity - b.quantity

\* A step of a call issued by user u.
CallBy(u) ==
    \/ \E h \in HoldingIds \cup {NULL}, type \in {"buy", "sell"}, q \in 1..MaxQty :
          CreateTransaction(u, h, type, q)
    \/ \E r \in 1..MaxRecs, s \in {"accepted", "rejected"} :
          UpdateRecommendationStatus(u, r, s)
    \/ \E t \in 1..MaxTxns : ReverseTransaction(u, t)
    \/ \E p \in Procs, r \in 1..MaxRecs : ExecBegin(p, u, r)
    \/ \E p \in Procs :
          /\ proc[p].user = u
          /\ \/ ExecSelectHolding(p) \/ ExecInsertTxn(p) \/ ExecUpdateHolding(p)
             \/ ExecMarkAccepted(p) \/ ExecCommit(p) \/ ExecStatementFails(p)

\* The holdings, transactions and recommendations owned by user u.
OwnedBy(u) ==
    [holdings |-> [h \in HoldingIds |->
                        IF holdings[h].user = u THEN holdings[h] ELSE NoHolding],
     transactions |-> SelectSeq(transactions, LAMBDA row : row.user = u),
     recs |-> SelectSeq(recs, LAMBDA row : row.user = u)]

\* C7: no call issued by a user creates, modifies or deletes a holding, a
\* transaction or a recommendation owned by another user.
C7_UserIsolation ==
    [][\A a \in Users, b \in Users :
          (a # b /\ CallBy(a)) => OwnedBy(b)' = OwnedBy(b)]_vars

(***************************************************************************)
(* Properties of the carry-forward ledger and the wash-sale guard.         *)
(***************************************************************************)
\* C8: getAvailableCarryForward(u, T) includes no record whose source year Y
\* has T - Y >= 8: every detail it returns has T - sourceYear < 8, and its
\* totals are the sums of those details.
C8_ExpiredRecordsExcluded ==
    cfResult.op = "getAvailable"
        => \A d \in cfResult.result.details :
              CalculateYearsDifference(d.sourceYear, cfResult.financialYear)
                  < ExpiryYears

\* C9: with S and L the short-term and long-term carry-forward available to
\* the user for the year, applyCarryForward returns
\* adjustedSTGain = max(0, ST - S) and
\* adjustedLTGain = max(0, LT - max(0, S - ST) - L), neither negative.
C9_AdjustedGains ==
    cfResult.op = "apply"
        => LET cf == AvailableCarryForward(cfResult.user, cfResult.financialYear)
               S == cf.totalSTCarryForward
               L == cf.totalLTCarryForward
               ST == cfResult.result.originalSTGain
               LT == cfResult.result.originalLTGain
           IN  /\ cfResult.result.adjustedSTGain = Max(0, ST - S)
               /\ cfResult.result.adjustedLTGain = Max(0, LT - Max(0, S - ST) - L)
               /\ cfResult.result.adjustedSTGain >= 0
               /\ cfResult.result.adjustedLTGain >= 0

\* An application in which the short-term carry-forward exceeded the short-term
\* gain, and its remainder and the long-term carry-forward were both applied to
\* the long-term gain: S > ST > 0, L > 0, LT > S - ST.
C9_Witness ==
    /\ cfResult.op = "apply"
    /\ LET cf == AvailableCarryForward(cfResult.user, cfResult.financialYear)
           S == cf.totalSTCarryForward
           L == cf.totalLTCarryForward
           ST == cfResult.result.originalSTGain
           LT == cfResult.result.originalLTGain
       IN  /\ S > ST /\ ST > 0 /\ L > 0 /\ LT > S - ST
           /\ cfResult.result.adjustedSTGain = 0
           /\ cfResult.result.adjustedLTGain = LT - (S - ST) - L

\* The day a date falls on.
DayOf(date) == date \div TicksPerDay

\* The sells of sym by u that the guard's table holds.
SellsOf(u, sym) ==
    {row \in wsTxns : row.user = u /\ row.asset_symbol = sym /\ row.type = "sell"}

Calculations == taxResult.result.calculations

\* C11: in every summary calculateTax returns, a holding whose gain is zero or
\* negative carries a tax liability of 0.
C11_NoTaxOnLoss ==
    taxResult.op = "calculateTax" =>
        \A i \in 1..Len(Calculations) :
            Calculations[i].gainLoss <= 0 => Calculations[i].taxLiability100 = 0

\* A summary over a holding at a loss and a holding whose gain is taxed.
C11_Witness ==
    /\ taxResult.op = "calculateTax"
    /\ \E i, j \in 1..Len(Calculations) :
        /\ Calculations[i].gainLoss < 0
        /\ Calculations[i].taxLiability100 = 0
        /\ Calculations[j].gainLoss > 0
        /\ Calculations[j].taxLiability100 > 0

\* The orders in which the holdings hs can be read.
ReadOrders(hs) ==
    {p \in [1..Len(hs) -> {hs[i] : i \in 1..Len(hs)}] :
        \A i, j \in 1..Len(hs) : p[i] = p[j] => i = j}

\* A summary without its list of per-holding calculations.
SummaryFields(summary) == [summary EXCEPT !.calculations = <<>>]

HighDeductionsInput ==
    [totalIncome |-> 1000,
     deductions |-> [section80C |-> 150, section80D |-> 25,
                     homeLoanInterest |-> 0, nps |-> 0, other |-> 0],
     capitalGains |-> [shortTermEquity |-> 0, longTermEquity |-> 0,
                       shortTermCrypto |-> 0, longTermCrypto |-> 0]]

\* C13: for income 1,000,000 with deductions of 175,000 and no capital gains,
\* compareRegimes returns an old-regime total tax strictly below the new-regime
\* total tax, recommends OLD, and reports 175,000 of deductions used.
C13_HighDeductionsFavourOld ==
    (taxResult.op = "compareRegimes" /\ taxResult.input = HighDeductionsInput) =>
        /\ taxResult.result.oldRegime.totalTax1e6
               < taxResult.result.newRegime.totalTax1e6
        /\ taxResult.result.recommendation = "OLD"
        /\ taxResult.result.oldRegime.deductionsUsed = 175

\* C14: compareRegimes recommends the regime whose total tax is strictly lower,
\* and "either" when the two totals are equal.
C14_LowerRegimeOrEither ==
    taxResult.op = "compareRegimes" =>
        LET old == taxResult.result.oldRegime.totalTax1e6
            new == taxResult.result.newRegime.totalTax1e6
        IN  /\ old < new => taxResult.result.recommendation = "OLD"
            /\ new < old => taxResult.result.recommendation = "NEW"
            /\ old = new => taxResult.result.recommendation = "either"

(***************************************************************************)
(* Properties of the recommendation lists.                                 *)
(***************************************************************************)
\* C16: the list getRecommendations returns is ordered by priority score,
\* highest first, and recommendations of equal score are in creation order,
\* the earlier-created one first.
C16_PriorityThenCreationOrder ==
    taxResult.op = "getRecommendations" =>
        \A i, j \in 1..Len(taxResult.result) :
            i < j =>
                \/ taxResult.result[i].priority_score
                       > taxResult.result[j].priority_score
                \/ /\ taxResult.result[i].priority_score
                          = taxResult.result[j].priority_score
                   /\ taxResult.result[i].recommendationId
                          < taxResult.result[j].recommendationId

(***************************************************************************)
(* Properties of one execution and of its reversal.                        *)
(***************************************************************************)
\* The step in which the execution on connection p commits.
ExecutionCommits(p) == proc[p].pc = "commit" /\ proc'[p].pc = "returned"

\* The holdings after an execution sold n of the q units it read of holding h.
HoldingsAfterSale(h, q, n) ==
    IF q - n > 0 THEN [holdings EXCEPT ![h].quantity = q - n]
    ELSE [holdings EXCEPT ![h] = NoHolding]

\* The row the execution of recommendation r appended to transactions is a sell
\* of the recommendation's quantity at its price, with holding_id link.
SellAppended(r, link) ==
    /\ Len(transactions') = Len(transactions) + 1
    /\ LET new == transactions'[Len(transactions')] IN
        /\ new.type = "sell"
        /\ new.user = recs[r].user
        /\ new.quantity = recs[r].quantity
        /\ new.price = recs[r].price
        /\ new.rec = r
        /\ new.holding_id = link

Unlinked(x, h, gone) == IF gone /\ x = h THEN NULL ELSE x

\* The rows with the holding_id of every row that referenced h unlinked.
UnlinkedRows(rows, h, gone) ==
    [i \in 1..Len(rows) |->
        [rows[i] EXCEPT !.holding_id = Unlinked(rows[i].holding_id, h, gone)]]

C18_RoundTripRestoresHolding ==
    [][\A t \in 1..Len(transactions) :
          (/\ transactions[t].platform = "tlh_execution"
           /\ transactions'[t].reversed = transactions[t].reversed + 1) =>
              /\ holdings'[transactions[t].soldFrom].exists
              /\ holdings'[transactions[t].soldFrom].quantity
                     = transactions[t].readQty
              /\ transactions'[t]
                     = [transactions[t] EXCEPT !.reversed = @ + 1]]_vars

(***************************************************************************)
(* Properties of the carry-forward ledger's queries and year-end recording.*)
(***************************************************************************)
\* The carry-forward records of user u that have not expired in year T and
\* whose source year is T or earlier, as details.
NonExpiredUpTo(u, T) ==
    {[sourceYear |-> row.sourceYear, stLoss |-> row.st_loss,
      ltLoss |-> row.lt_loss, expiresIn |-> row.expiresIn] :
        row \in {x \in reports :
                    /\ x.user = u
                    /\ x.report_type = "carry_forward"
                    /\ x.sourceYear <= T
                    /\ CalculateYearsDifference(x.sourceYear, T) < ExpiryYears}}

\* C19: getAvailableCarryForward(u, T) returns exactly the non-expired records
\* of u whose source year is <= T, a loss of year T itself included, and totals
\* that are the sums of their short-term and long-term losses.
C19_AvailableUpToTargetYear ==
    cfResult.op = "getAvailable" =>
        LET expected == NonExpiredUpTo(cfResult.user, cfResult.financialYear) IN
        /\ cfResult.result.details = expected
        /\ cfResult.result.totalSTCarryForward = SumST(expected)
        /\ cfResult.result.totalLTCarryForward = SumLT(expected)

\* The carry-forward records stored for user u under financial year y.
CarryForwardRecords(u, y) ==
    {row \in reports : /\ row.user = u
                       /\ row.report_type = "carry_forward"
                       /\ row.financial_year = y}

\* C20: calculateCarryForward(u, Y) on the summary of year Y succeeds, and when
\* the net short-term or long-term loss of year Y is positive it leaves exactly
\* one carry-forward record for (u, Y + 1), holding the two net losses.
C20_YearEndUpsert ==
    (cfResult.op = "calculate" /\ cfResult.read = "capital_gains") =>
        /\ ~ cfResult.threw
        /\ (cfResult.result.stCarryForward > 0 \/ cfResult.result.ltCarryForward > 0)
            => \E row \in reports :
                /\ CarryForwardRecords(cfResult.user,
                                       GetNextFinancialYear(cfResult.financialYear))
                       = {row}
                /\ row.st_loss = cfResult.result.stCarryForward
                /\ row.lt_loss = cfResult.result.ltCarryForward

\* C21: applyCarryForward leaves the carry-forward ledger as it was: the records
\* and their loss amounts are the same before and after every call, so a later
\* call sees the full recorded losses.
C21_ApplyLeavesLedger ==
    [][cfResult'.op = "apply" => reports' = reports]_vars

\* An application used carried losses, and the ledger still holds the records
\* with the full amounts it used.
C21_Witness ==
    /\ cfResult.op = "apply"
    /\ cfResult.result.stLossUsed > 0
    /\ cfResult.result.ltLossUsed > 0
    /\ LET cf == AvailableCarryForward(cfResult.user, cfResult.financialYear) IN
        /\ cf.totalSTCarryForward >= cfResult.result.stLossUsed
        /\ cf.totalLTCarryForward >= cfResult.result.ltLossUsed

(***************************************************************************)
(* Properties of the reverse guard and the wash-sale history.              *)
(***************************************************************************)
\* The buys of sym by u on the 30 days before day d.
BuysBefore(u, sym, d) ==
    {row \in wsTxns : /\ row.user = u /\ row.asset_symbol = sym /\ row.type = "buy"
                      /\ DayOf(row.transaction_date) >= d - WASH_SALE_DAYS
                      /\ DayOf(row.transaction_date) < d}

\* C22: for a sell proposed on day d and the most recent buy of the symbol on
\* day b within the 30 days before d, checkReverseWashSale returns
\* daysRemaining = 30 - (d - b) and isWashSale exactly when daysRemaining > 0;
\* with no buy in that window it returns isWashSale = false, daysRemaining = 0.
C22_ReverseWashSale ==
    (wsResult.op = "checkReverseWashSale" /\ wsResult.sellDate % TicksPerDay = 0) =>
        LET d == DayOf(wsResult.sellDate)
            buys == BuysBefore(wsResult.user, wsResult.assetSymbol, d)
            res == wsResult.result
        IN  IF buys = {}
            THEN res.isWashSale = FALSE /\ res.daysRemaining = 0
            ELSE LET b == DayOf(MostRecentBuy(buys).transaction_date) IN
                 /\ res.daysRemaining = WASH_SALE_DAYS - (d - b)
                 /\ res.isWashSale = (res.daysRemaining > 0)

\* The buys that make the sell a wash sale: of the same user and symbol, on a
\* later day, at most 30 days after the sell.
BuysAfter(u, sell) ==
    {row \in wsTxns : /\ row.user = u /\ row.asset_symbol = sell.asset_symbol
                      /\ row.type = "buy"
                      /\ DayOf(row.transaction_date) > DayOf(sell.transaction_date)
                      /\ DayOf(row.transaction_date)
                             <= DayOf(sell.transaction_date) + WASH_SALE_DAYS}

ApplicableRate(row, config) ==
    IF row.asset_type = "stock"
    THEN IF IsShortTerm(row) THEN config.shortTermEquityRate
                             ELSE config.longTermEquityRate
    ELSE IF IsShortTerm(row) THEN config.cryptoShortTermRate
                             ELSE config.cryptoLongTermRate

\* The net gain of the bucket, short- or long-term, a holding belongs to.
BucketNetGain(row, summary) ==
    IF IsShortTerm(row) THEN summary.netShortTermGains ELSE summary.netLongTermGains

\* C24: the tax savings of every recommendation are min(potential loss, net gain
\* of the holding's own bucket) times the rate that applies to the holding's
\* asset type and term, and are 0 only when that bucket has no net gain
\* (a bucket in net loss counts as no net gain).
C24_TaxSavingsEstimate ==
    \A i \in 1..Len(recs) :
        LET row == holdings[recs[i].holding_id]
            net == BucketNetGain(row, UserTaxSummary(recs[i].user, taxConfig))
        IN  /\ recs[i].tax_savings100
                   = Min(recs[i].potential_loss, Max(0, net))
                         * ApplicableRate(row, taxConfig)
            /\ recs[i].tax_savings100 = 0 => net <= 0

\* The rows a step appended to tax_recommendations.
NewRecs == SubSeq(recs', Len(recs) + 1, Len(recs'))

\* C25: a generateRecommendations(u, FY) step appends exactly one row for each
\* holding of u with a negative gain and none for any other holding; each row
\* is pending, of type harvest_loss, for the holding's whole quantity, with
\* potential loss |gain| and deadline March 31 of the year FY ends in; the
\* holdings and transactions are left as they were.
C25_OnePerLossHolding ==
    [][\A u \in Users : GenerateRecommendations(u) =>
          /\ Len(recs') >= Len(recs)
          /\ SubSeq(recs', 1, Len(recs)) = recs
          /\ \A h \in HoldingIds :
                Cardinality({i \in 1..Len(NewRecs) : NewRecs[i].holding_id = h})
                    = IF /\ holdings[h].exists
                         /\ holdings[h].user = u
                         /\ ProfitLoss(holdings[h]) < 0
                      THEN 1 ELSE 0
          /\ \A i \in 1..Len(NewRecs) :
                LET row == holdings[NewRecs[i].holding_id] IN
                /\ NewRecs[i].user = u
                /\ NewRecs[i].status = "pending"
                /\ NewRecs[i].recommendation_type = "harvest_loss"
                /\ NewRecs[i].quantity = row.quantity
                /\ NewRecs[i].potential_loss = Abs(ProfitLoss(row))
                /\ NewRecs[i].deadline
                       = [year |-> FinancialYear.end, month |-> 3, day |-> 31]
          /\ holdings' = holdings
          /\ transactions' = transactions]_vars

\* A user with one holding in profit and one in loss has exactly one
\* recommendation, for the holding in loss.
C25_Witness ==
    \E u \in Users, g, l \in HoldingIds :
        /\ holdings[g].exists /\ holdings[g].user = u /\ ProfitLoss(holdings[g]) > 0
        /\ holdings[l].exists /\ holdings[l].user = u /\ ProfitLoss(holdings[l]) < 0
        /\ Len(recs) = 1
        /\ recs[1].holding_id = l
        /\ recs[1].quantity = MaxQty

\* The long-term stock holdings of u that are in profit.
LongTermStockGains(u) ==
    {h \in HoldingIds : /\ holdings[h].exists /\ holdings[h].user = u
                        /\ holdings[h].asset_type = "stock"
                        /\ holdings[h].days >= 365
                        /\ ProfitLoss(holdings[h]) > 0}

\* rate * sum of max(0, g - E) over the long-term stock gains g of u, times 100.
PerHoldingExemptionTax100(u, config) ==
    LET hs == UserHoldings(u) IN
    SumSeq([i \in 1..Len(hs) |->
        IF hs[i] \in LongTermStockGains(u)
        THEN config.longTermEquityRate
                 * Max(0, ProfitLoss(holdings[hs[i]]) - config.longTermEquityExemption)
        ELSE 0])

\* rate * max(0, sum of g - E) over the long-term stock gains g of u, times 100.
AggregateExemptionTax100(u, config) ==
    LET hs == UserHoldings(u)
        total == SumSeq([i \in 1..Len(hs) |->
                    IF hs[i] \in LongTermStockGains(u)
                    THEN ProfitLoss(holdings[hs[i]]) ELSE 0])
    IN  config.longTermEquityRate * Max(0, total - config.longTermEquityExemption)

\* The part of a summary's total liability that comes from the long-term
\* stock holdings in profit, times 100.
LongTermStockLiability100(u, summary) ==
    summary.totalTaxLiability100
        - SumSeq([i \in 1..Len(summary.calculations) |->
            IF summary.calculations[i].holding_id \in LongTermStockGains(u)
            THEN 0 ELSE summary.calculations[i].taxLiability100])

\* C26: calculateTax grants the long-term equity exemption E to each long-term
\* stock holding separately: the liability of these holdings is
\* rate * sum of max(0, g - E), which for a single such holding is the aggregate
\* rate * max(0, g - E).
C26_ExemptionPerHolding ==
    taxResult.op = "calculateTax" =>
        LET u == taxResult.user
            liability100 == LongTermStockLiability100(u, taxResult.result)
        IN  /\ liability100 = PerHoldingExemptionTax100(u, taxConfig)
            /\ Cardinality(LongTermStockGains(u)) = 1
                   => liability100 = AggregateExemptionTax100(u, taxConfig)

\* A user with two long-term stock gains above the exemption is charged less
\* than the aggregate formula would charge.
C26_Witness ==
    /\ taxResult.op = "calculateTax"
    /\ Cardinality(LongTermStockGains(taxResult.user)) = 2
    /\ taxResult.result.totalTaxLiability100 > 0
    /\ taxResult.result.totalTaxLiability100
           = PerHoldingExemptionTax100(taxResult.user, taxConfig)
    /\ taxResult.result.totalTaxLiability100
           < AggregateExemptionTax100(taxResult.user, taxConfig)

\* C27: the sell an execution records is never for more than the holding's
\* quantity the execution read: no execution sells more than is held.
C27_NoOversell ==
    \A t \in 1..Len(transactions) :
        transactions[t].platform = "tlh_execution"
            => transactions[t].quantity <= transactions[t].readQty

\* C28: reversing a transaction that was already reversed changes no holding.
C28_ReversalAtMostOnce ==
    [][\A t \in 1..Len(transactions) :
          /\ Len(transactions') = Len(transactions)
          /\ transactions[t].reversed >= 1
          /\ transactions'[t].reversed > transactions[t].reversed
          => holdings' = holdings]_vars

\* The pending recommendations that refer to holding h.
PendingFor(h) ==
    {i \in 1..Len(recs) : recs[i].holding_id = h /\ recs[i].status = "pending"}

RECURSIVE PendingQuantity(_)
PendingQuantity(ids) ==
    IF ids = {} THEN 0
    ELSE LET i == CHOOSE x \in ids : TRUE
         IN  recs[i].quantity + PendingQuantity(ids \ {i})

\* C29: while the portfolio is unchanged, however often recommendations are
\* generated, a holding has at most one pending recommendation, and the pending
\* quantity recommended for sale is at most the holding's quantity.
C29_NoDuplicateCandidates ==
    \A h \in HoldingIds :
        /\ Cardinality(PendingFor(h)) <= 1
        /\ PendingQuantity(PendingFor(h)) <= holdings[h].quantity

\* The summary rows of user u for financial year y.
SummariesOf(u, y) ==
    {row \in reports : /\ row.user = u
                       /\ row.financial_year = y
                       /\ row.report_type = "capital_gains"}

\* C30: the net losses calculateCarryForward(u, Y) computes are those of year
\* Y's own summary, and are 0 when year Y has no summary; a carry-forward
\* record stored under year Y is never their source.
C30_NetLossFromOwnSummary ==
    cfResult.op = "calculate" =>
        LET own == SummariesOf(cfResult.user, cfResult.financialYear) IN
        IF own = {}
        THEN cfResult.result = [stCarryForward |-> 0, ltCarryForward |-> 0]
        ELSE \E row \in own :
                cfResult.result
                    = [stCarryForward |-> Max(0, row.st_loss - row.st_gain),
                       ltCarryForward |-> Max(0, row.lt_loss - row.lt_gain)]

====
